---- MODULE Spec2Model ----
(***************************************************************************)
(* Model of the route-inspection (Chinese Postman) solver of               *)
(* src/planning/cpp_solver.py.                                             *)
(*                                                                         *)
(* A street network is a networkx MultiDiGraph.  Its nodes are numbered in *)
(* the order in which they were inserted (networkx iterates nodes in       *)
(* insertion order), and the parallel edges u->v carry the keys 0,1,2,...  *)
(* that add_edge hands out, which is also how OSMnx numbers them.  Every   *)
(* edge carries a positive integer `length`.                               *)
(*                                                                         *)
(* Where networkx iterates a neighbourhood (arbitrary_element, neighbors,  *)
(* ties between shortest paths or between matchings) the order depends on  *)
(* the insertion order of the edges, which the model does not record:      *)
(* every order is allowed.                                                 *)
(***************************************************************************)
EXTENDS Integers, Sequences, FiniteSets, TLC

\* Bounds of the model.
NumNodes == 4
MaxEdges == 4
MaxLen == 2
MaxSolves == 2
MaxCalls == 2

VARIABLES
    callerGraph,      \* the graph object the caller built and passes to CPPSolver
    graph,            \* CPPSolver.graph
    augmented_graph,  \* CPPSolver.augmented_graph
    euler_circuit,    \* CPPSolver.euler_circuit
    min_weight_pairs, \* the matched (node1, node2, path) triples of the last _augment_graph
    branch,           \* which paths the last solve took
    result,           \* value returned (or exception raised) by the last call
    calls,            \* log of the solve calls that returned: the self.graph
                      \* each found, the augmented graph and circuit it left
    planner,          \* a RoutePlanner: its graph, solver, route and exporter
    planned_for,      \* the RoutePlanner.graph of the plan_route call that
                      \* produced RoutePlanner.route
    routes,           \* RouteService.routes: the route ids that have an entry
    active_planners,  \* RouteService.active_planners: the route ids it holds
    call,             \* the plan_route_* calls, by route id: where each
                      \* stands, whether it has a progress callback, and the
                      \* progress events its callback was handed
    pc                \* the caller: "build" (builds its graph), "ready" (has
                      \* constructed the solver), "solved" (has called solve),
                      \* "stats" (reads the statistics), "analysed" (has
                      \* called the degree analyzer)

vars == <<callerGraph, graph, augmented_graph, euler_circuit, min_weight_pairs,
          branch, result, calls, planner, planned_for, routes,
          active_planners, call, pc>>

serviceVars == <<routes, active_planners, call>>

plannerVars == <<planner, planned_for>>

AllNodes == 1..NumNodes
\* The route ids (uuid4) of the plan_route_* calls.
Calls == 1..MaxCalls
\* A call that has not been made.
NoCall == [at |-> "new", cb |-> FALSE, events |-> <<>>]
RECURSIVE NoCalls(_)
NoCalls(n) == IF n = 0 THEN <<>> ELSE Append(NoCalls(n - 1), NoCall)
Pairs == AllNodes \X AllNodes
Lengths == 1..MaxLen

----------------------------------------------------------------------------
\* Arithmetic helpers.

RECURSIVE SumOver(_, _)
\* Sum of f[x] for x in S.
SumOver(f, S) ==
    IF S = {} THEN 0
    ELSE LET x == CHOOSE y \in S : TRUE IN f[x] + SumOver(f, S \ {x})

RECURSIVE SumTo(_, _)
\* F(1) + ... + F(n)
SumTo(F(_), n) == IF n = 0 THEN 0 ELSE F(n) + SumTo(F, n - 1)

\* The function f, evaluated once on its whole domain (TLC would otherwise
\* evaluate a function expression again at every application).
Materialize(f) == IF f = f THEN f ELSE f

MinOf(S) == CHOOSE x \in S : \A y \in S : x <= y
MaxOf(S) == CHOOSE x \in S : \A y \in S : x >= y
Lo(u, v) == IF u <= v THEN u ELSE v
Hi(u, v) == IF u <= v THEN v ELSE u

----------------------------------------------------------------------------
\* networkx.MultiDiGraph: nodes, and per ordered pair (u, v) the lengths of
\* the edges u->v, the edge with key k at index k + 1.

\* No edge between any two nodes: [p \in S |-> <<>>], built entry by entry
\* so that the value is an explicit table.
RECURSIVE NoEdges(_)
NoEdges(S) ==
    IF S = {} THEN <<>>
    ELSE LET p == CHOOSE q \in S : TRUE
         IN  (p :> <<>>) @@ NoEdges(S \ {p})
EmptyEdges == NoEdges(Pairs)
EmptyGraph == [nodes |-> {}, e |-> EmptyEdges]
\* Python's None for a graph attribute.
NoneGraph == [nodes |-> {0}, e |-> EmptyEdges]
\* Python's None for euler_circuit (node 0 does not exist).
NoneCircuit == <<<<0, 0>>>>

has_edge(g, u, v) == Len(g.e[<<u, v>>]) > 0
out_degree(g, v) == SumTo(LAMBDA w : Len(g.e[<<v, w>>]), NumNodes)
in_degree(g, v) == SumTo(LAMBDA w : Len(g.e[<<w, v>>]), NumNodes)
number_of_edges(g) == SumTo(LAMBDA v : out_degree(g, v), NumNodes)

\* MultiDiGraph.add_node: the next node in insertion order.
add_node(g) == [g EXCEPT !.nodes = @ \cup {Cardinality(g.nodes) + 1}]
\* MultiDiGraph.add_edge(u, v, length=len) without a key: the new edge gets
\* the first unused key, len(keydict).
add_edge(g, u, v, len) == [g EXCEPT !.e[<<u, v>>] = Append(@, len)]

\* Graph objects live on a heap, a sequence of graph values; a reference is
\* an index into it.  Two references to one object see each other's changes.

\* A copy that hands back the object itself.
SameObject(heap, ref) == [heap |-> heap, ref |-> ref]

\* MultiDiGraph.copy(): a new object with the nodes and the edges of heap[ref].
copy(heap, ref) == [heap |-> Append(heap, heap[ref]), ref |-> Len(heap) + 1]

----------------------------------------------------------------------------
\* networkx.MultiGraph, as MultiDiGraph.to_undirected() builds it.  The edges
\* between a and b are kept under the pair <<a, b>> with a <= b.

\* MultiDiGraph.to_undirected(): every directed edge (u, v, key, data) is
\* added to the MultiGraph under its own key, sources in node order.  The
\* edges u->v and v->u with the same key land on the SAME undirected edge,
\* whose data dict the later one updates.
to_undirected(g) ==
    [nodes |-> g.nodes,
     e |-> Materialize(
           [p \in Pairs |->
              IF p[1] > p[2] THEN <<>>
              ELSE IF p[1] = p[2] THEN g.e[p]
              ELSE LET fwd == g.e[<<p[1], p[2]>>]
                       bwd == g.e[<<p[2], p[1]>>]
                       m == IF Len(fwd) >= Len(bwd) THEN Len(fwd) ELSE Len(bwd)
                   IN [k \in 1..m |-> IF k <= Len(bwd) THEN bwd[k] ELSE fwd[k]]])]

\* The edges between u and v of a MultiGraph.
UE(ug, u, v) == ug.e[<<Lo(u, v), Hi(u, v)>>]

\* MultiGraph.degree: a self-loop counts twice.
degree(ug, v) ==
    SumTo(LAMBDA w : IF w = v THEN 2 * Len(UE(ug, v, v)) ELSE Len(UE(ug, v, w)),
          NumNodes)

\* MultiGraph.neighbors
neighbors(ug, v) == {w \in ug.nodes : Len(UE(ug, v, w)) > 0}

MultiGraph_number_of_edges(ug) ==
    SumTo(LAMBDA v : SumTo(LAMBDA w : Len(ug.e[<<v, w>>]), NumNodes), NumNodes)

RECURSIVE Closure(_, _)
Closure(ug, S) ==
    LET T == S \cup UNION {neighbors(ug, v) : v \in S}
    IN IF T = S THEN S ELSE Closure(ug, T)

\* nx.node_connected_component
node_connected_component(ug, v) == Closure(ug, {v})

\* nx.connected_components
connected_components(ug) == {node_connected_component(ug, v) : v \in ug.nodes}

\* nx.is_connected (raises NetworkXPointlessConcept on a graph without nodes)
is_connected(ug) == node_connected_component(ug, MinOf(ug.nodes)) = ug.nodes

\* max(nx.connected_components(undirected), key=len): the components come in
\* the order of their first node, and max keeps the first of the largest.
largest_cc(ug) ==
    LET cs == connected_components(ug)
        big == {c \in cs : \A d \in cs : Cardinality(c) >= Cardinality(d)}
    IN CHOOSE c \in big : \A d \in big : MinOf(c) <= MinOf(d)

\* A restriction that keeps the whole graph.
SubgraphWhole(ug, S) == ug

\* MultiGraph.subgraph(nodes).copy()
subgraph(ug, S) ==
    [nodes |-> S,
     e |-> Materialize(
           [p \in Pairs |-> IF p[1] \in S /\ p[2] \in S THEN ug.e[p] ELSE <<>>])]

----------------------------------------------------------------------------
\* Degree/Eulerian analyzer.

RECURSIVE Forward(_, _)
Forward(g, S) ==
    LET T == S \cup {w \in g.nodes : \E v \in S : has_edge(g, v, w)}
    IN IF T = S THEN S ELSE Forward(g, T)

RECURSIVE Backward(_, _)
Backward(g, S) ==
    LET T == S \cup {w \in g.nodes : \E v \in S : has_edge(g, w, v)}
    IN IF T = S THEN S ELSE Backward(g, T)

\* nx.is_strongly_connected: the strongly connected component of the first
\* node is the whole graph (raises NetworkXPointlessConcept without nodes).
is_strongly_connected(g) ==
    LET s == MinOf(g.nodes)
    IN (Forward(g, {s}) \cap Backward(g, {s})) = g.nodes

\* _is_eulerian without its connectivity check.
IsEulerianNoConnectivity(g) ==
    ~ \E node \in g.nodes : in_degree(g, node) # out_degree(g, node)

\* CPPSolver._is_eulerian, on a graph with at least one node.
_is_eulerian(g) ==
    IF \E node \in g.nodes : in_degree(g, node) # out_degree(g, node)
    THEN FALSE
    ELSE is_strongly_connected(g)

\* The nodes with an odd out-degree.
OddOutDegreeNodes(g) == {node \in g.nodes : out_degree(g, node) % 2 = 1}

\* CPPSolver._get_odd_degree_nodes
_get_odd_degree_nodes(g) ==
    {node \in g.nodes : (in_degree(g, node) + out_degree(g, node)) % 2 = 1}

----------------------------------------------------------------------------
\* Odd-node matcher.

\* The weight networkx gives a hop of a MultiGraph under weight='length':
\* the smallest length among the parallel edges.
hop_weight(ug, u, v) == MinOf({UE(ug, u, v)[k] : k \in 1..Len(UE(ug, u, v))})

RECURSIVE simple_paths(_, _, _)
\* Every simple path of ug that extends path p to node b.
simple_paths(ug, p, b) ==
    IF p[Len(p)] = b THEN {p}
    ELSE UNION {simple_paths(ug, Append(p, w), b) :
                   w \in {x \in neighbors(ug, p[Len(p)]) :
                             \A i \in 1..Len(p) : p[i] # x}}

path_weight(ug, p) ==
    SumTo(LAMBDA i : hop_weight(ug, p[i], p[i + 1]), Len(p) - 1)

\* nx.NetworkXNoPath
has_path(ug, a, b) == b \in node_connected_component(ug, a)

\* nx.shortest_path_length(undirected, a, b, weight='length')
shortest_path_length(ug, a, b) ==
    MinOf({path_weight(ug, p) : p \in simple_paths(ug, <<a>>, b)})

\* nx.shortest_path(undirected, a, b, weight='length'): one of the paths of
\* least weight.
shortest_path(ug, a, b) ==
    LET ps == simple_paths(ug, <<a>>, b)
        least == MinOf({path_weight(ug, p) : p \in ps})
    IN {p \in ps : path_weight(ug, p) = least}

\* An auxiliary graph that gives up a node as soon as one of its pairs has
\* no path.
EdgesOnlyIfAllReachable(ug, odd_nodes) ==
    {pr \in odd_nodes \X odd_nodes :
        /\ pr[1] < pr[2]
        /\ \A w \in odd_nodes : has_path(ug, pr[1], w) /\ has_path(ug, pr[2], w)}

\* combinations(odd_nodes, 2) minus the pairs without a path: the edges of
\* complete_graph, each <<node1, node2>> with node1 before node2.
complete_graph_edges(ug, odd_nodes) ==
    {pr \in odd_nodes \X odd_nodes : pr[1] < pr[2] /\ has_path(ug, pr[1], pr[2])}

is_matching(M) ==
    \A x \in M, y \in M : x # y => {x[1], x[2]} \cap {y[1], y[2]} = {}

\* A matching of maximum cardinality, whatever its weight.
AnyMaximumMatching(ug, E) ==
    LET ms == {M \in SUBSET E : is_matching(M)}
    IN {M \in ms : \A M2 \in ms : Cardinality(M2) <= Cardinality(M)}

\* A matching of least weight among all matchings, of whatever cardinality.
LightestMatching(ug, E) ==
    LET w == Materialize([pr \in E |-> shortest_path_length(ug, pr[1], pr[2])])
        ms == {M \in SUBSET E : is_matching(M)}
    IN {M \in ms : \A M2 \in ms : SumOver(w, M) <= SumOver(w, M2)}

\* nx.algorithms.matching.min_weight_matching(complete_graph, weight='weight'):
\* max_weight_matching(maxcardinality=True) on the weights
\* (1 + largest weight) - weight.  Ties are resolved by networkx; any of the
\* best matchings may come out.
min_weight_matching(ug, E) ==
    LET w == Materialize([pr \in E |-> shortest_path_length(ug, pr[1], pr[2])])
        top == IF E = {} THEN 1 ELSE 1 + MaxOf({w[pr] : pr \in E})
        inv == Materialize([pr \in E |-> top - w[pr]])
        ms == {M \in SUBSET E : is_matching(M)}
        card == {M \in ms : \A M2 \in ms : Cardinality(M2) <= Cardinality(M)}
    IN {M \in card : \A M2 \in card : SumOver(inv, M2) <= SumOver(inv, M)}

RECURSIVE matched_paths(_, _)
\* The (node1, node2, path) triples of a matching, the path of each pair
\* being the one stored in complete_graph.
matched_paths(ug, M) ==
    IF M = {} THEN {{}}
    ELSE LET pr == CHOOSE x \in M : TRUE
         IN {rest \cup {<<pr[1], pr[2], p>>} :
                rest \in matched_paths(ug, M \ {pr}),
                p \in shortest_path(ug, pr[1], pr[2])}

\* CPPSolver._find_min_weight_matching: every list of triples it can return
\* (as a set: the order of the list does not change the augmented graph).
_find_min_weight_matching(g, odd_nodes) ==
    LET undirected == to_undirected(g)
    IN UNION {matched_paths(undirected, M) :
                 M \in min_weight_matching(undirected,
                          complete_graph_edges(undirected, odd_nodes))}

----------------------------------------------------------------------------
\* Graph augmenter.

\* add_hop without the lookup of the reverse edge.
HopOnlyForward(g, aug, u, v) ==
    IF has_edge(g, u, v) THEN add_edge(aug, u, v, g.e[<<u, v>>][1])
    ELSE aug

\* One hop (u, v) of a matched path: lines 107-114.
add_hop(g, aug, u, v) ==
    IF has_edge(g, u, v) THEN add_edge(aug, u, v, g.e[<<u, v>>][1])
    ELSE IF has_edge(g, v, u) THEN add_edge(aug, v, u, g.e[<<v, u>>][1])
    ELSE aug

RECURSIVE add_path(_, _, _, _)
\* for i in range(len(path) - 1), from hop i on.
add_path(g, aug, path, i) ==
    IF i > Len(path) - 1 THEN aug
    ELSE add_path(g, add_hop(g, aug, path[i], path[i + 1]), path, i + 1)

RECURSIVE add_pairs(_, _, _)
\* for node1, node2, path in min_weight_pairs
add_pairs(g, aug, pairs) ==
    IF pairs = {} THEN aug
    ELSE LET t == CHOOSE x \in pairs : TRUE
         IN add_pairs(g, add_path(g, aug, t[3], 1), pairs \ {t})

\* The odd nodes _augment_graph computes: lines 85-91.
augment_odd_nodes(g) ==
    LET undirected == to_undirected(g)
    IN {node \in undirected.nodes : degree(undirected, node) % 2 = 1}

\* CPPSolver._augment_graph: every (graph, augmented_graph, min_weight_pairs)
\* it can leave behind.  self.graph is object 1 of the heap; the add_edge
\* calls act on the object self.augmented_graph refers to.
_augment_graph(g) ==
    LET odd_nodes == augment_odd_nodes(g)
        c == copy(<<g>>, 1)
    IN IF odd_nodes = {}
       THEN {[graph |-> c.heap[1], aug |-> c.heap[c.ref], pairs |-> {}]}
       ELSE {LET h == [c.heap EXCEPT ![c.ref] = add_pairs(g, @, prs)]
             IN [graph |-> h[1], aug |-> h[c.ref], pairs |-> prs] :
                prs \in _find_min_weight_matching(g, odd_nodes)}

----------------------------------------------------------------------------
\* Circuit builder.

\* nx.is_eulerian on an undirected graph
nx_is_eulerian(ug) ==
    /\ \A v \in ug.nodes : degree(ug, v) % 2 = 0
    /\ is_connected(ug)

\* MultiGraph.remove_edge(u, v, key)
remove_edge(ug, u, v) == [ug EXCEPT !.e[<<Lo(u, v), Hi(u, v)>>] = Tail(@)]

\* The edge _multigraph_eulerian_circuit yields when it pops a vertex.
circuit_edge(last_vertex, current_vertex) == <<last_vertex, current_vertex>>

RECURSIVE _multigraph_eulerian_circuit(_, _, _, _)
\* networkx's Hierholzer loop (while vertex_stack), from the state (G,
\* vertex_stack, last_vertex) with `out` yielded so far; last_vertex = 0 is
\* None.  arbitrary_element(edges(current_vertex)) may be any remaining edge.
_multigraph_eulerian_circuit(G, vertex_stack, last_vertex, out) ==
    IF vertex_stack = <<>> THEN {out}
    ELSE LET current_vertex == vertex_stack[Len(vertex_stack)]
         IN IF degree(G, current_vertex) = 0
            THEN _multigraph_eulerian_circuit(
                     G, SubSeq(vertex_stack, 1, Len(vertex_stack) - 1),
                     current_vertex,
                     IF last_vertex # 0
                     THEN Append(out, circuit_edge(last_vertex, current_vertex))
                     ELSE out)
            ELSE UNION {_multigraph_eulerian_circuit(
                            remove_edge(G, current_vertex, next_vertex),
                            Append(vertex_stack, next_vertex), last_vertex, out) :
                           next_vertex \in neighbors(G, current_vertex)}

\* A circuit that yields an entry for the source itself before any edge.
SourceFirst(ug) ==
    _multigraph_eulerian_circuit(ug, <<MinOf(ug.nodes)>>, 0,
                                 <<<<MinOf(ug.nodes), MinOf(ug.nodes)>>>>)

\* list(nx.eulerian_circuit(undirected)) when it does not raise: the source
\* is the first node.
eulerian_circuit(ug) ==
    _multigraph_eulerian_circuit(ug, <<MinOf(ug.nodes)>>, 0, <<>>)

RECURSIVE dfs(_, _, _)
RECURSIVE dfs_loop(_, _, _, _)
\* The nested dfs(node) of the fallback: st holds `visited` and `edges`; the
\* result is every (visited, edges) the call can end with.
dfs(ug, node, st) ==
    dfs_loop(ug, node, neighbors(ug, node),
             [st EXCEPT !.visited = @ \cup {node}])
\* for neighbor in undirected.neighbors(node), `todo` still to come.
dfs_loop(ug, node, todo, st) ==
    IF todo = {} THEN {st}
    ELSE UNION {
        IF neighbor \in st.visited
        THEN dfs_loop(ug, node, todo \ {neighbor}, st)
        ELSE UNION {dfs_loop(ug, node, todo \ {neighbor}, st2) :
                       st2 \in dfs(ug, neighbor,
                                  [st EXCEPT !.edges = Append(@, <<node, neighbor>>)])}
        : neighbor \in todo}

\* The graph the circuit is built on: lines 163-170.
circuit_graph(aug) ==
    LET undirected == to_undirected(aug)
    IN IF ~ is_connected(undirected)
       THEN subgraph(undirected, largest_cc(undirected))
       ELSE undirected

\* CPPSolver._find_euler_circuit on a graph with at least one node: every
\* list it can return, with the path taken.
_find_euler_circuit(aug) ==
    LET undirected == circuit_graph(aug)
    IN IF nx_is_eulerian(undirected)
       THEN {[circuit |-> c, fallback |-> FALSE] : c \in eulerian_circuit(undirected)}
       ELSE {[circuit |-> st.edges, fallback |-> TRUE] :
                st \in dfs(undirected, MinOf(undirected.nodes),
                          [visited |-> {}, edges |-> <<>>])}

\* CPPSolver.solve on a graph with at least one node: every outcome.
solve(g) ==
    LET augs == IF _is_eulerian(g)
                THEN LET c == copy(<<g>>, 1)
                     IN {[graph |-> c.heap[1], aug |-> c.heap[c.ref],
                          pairs |-> {}, eulerian |-> TRUE]}
                ELSE {[graph |-> a.graph, aug |-> a.aug, pairs |-> a.pairs,
                       eulerian |-> FALSE] : a \in _augment_graph(g)}
    IN UNION {{[graph |-> a.graph, aug |-> a.aug, pairs |-> a.pairs,
                eulerian |-> a.eulerian,
                circuit |-> c.circuit, fallback |-> c.fallback] :
                  c \in _find_euler_circuit(a.aug)} : a \in augs}

----------------------------------------------------------------------------
\* Route statistics.

\* One entry (u, v) of the circuit in get_total_distance: lines 205-217.
entry_length(aug, u, v) ==
    IF has_edge(aug, u, v) THEN aug.e[<<u, v>>][1]
    ELSE IF has_edge(aug, v, u) THEN aug.e[<<v, u>>][1]
    ELSE 0

\* A distance of one per entry, without the test for a missing circuit.
DistanceCountsEntries(aug, circuit) == Len(circuit)

\* CPPSolver.get_total_distance
get_total_distance(aug, circuit) ==
    IF circuit = NoneCircuit \/ circuit = <<>> THEN 0
    ELSE SumTo(LAMBDA i : entry_length(aug, circuit[i][1], circuit[i][2]),
               Len(circuit))

\* len(set(self.euler_circuit))
unique_edges(circuit) == Cardinality({circuit[i] : i \in 1..Len(circuit)})

\* Statistics that take total_edges from the augmented graph.
StatsOfAugmentedGraph(g, aug, circuit) ==
    [total_edges |-> number_of_edges(aug),
     total_distance |-> get_total_distance(aug, circuit),
     unique_edges |-> unique_edges(circuit),
     repeated_edges |-> Len(circuit) - unique_edges(circuit),
     coverage_num |-> unique_edges(circuit) * 100,
     coverage_den |-> number_of_edges(g)]

\* CPPSolver.get_route_stats, the circuit being non-empty and the graph
\* having an edge.  edge_coverage is unique_edges / original_edges * 100,
\* kept as the fraction coverage_num / coverage_den.
get_route_stats(g, aug, circuit) ==
    [total_edges |-> Len(circuit),
     total_distance |-> get_total_distance(aug, circuit),
     unique_edges |-> unique_edges(circuit),
     repeated_edges |-> Len(circuit) - unique_edges(circuit),
     coverage_num |-> unique_edges(circuit) * 100,
     coverage_den |-> number_of_edges(g)]

NoStats == [total_edges |-> 0, total_distance |-> 0, unique_edges |-> 0,
            repeated_edges |-> 0, coverage_num |-> 0, coverage_den |-> 1]
NoBranch == [eulerian |-> FALSE, fallback |-> FALSE]
\* A RoutePlanner attribute that is None: solver, and the planner as
\* RoutePlanner.__init__ leaves it.
NoneSolver == [graph |-> NoneGraph, augmented_graph |-> NoneGraph,
               euler_circuit |-> NoneCircuit]
NonePlanner == [graph |-> NoneGraph, solver |-> NoneSolver,
                route |-> NoneCircuit, exporter |-> NoneGraph]
NoResult == [op |-> "none", exc |-> "none", empty |-> TRUE, distance |-> 0,
             stats |-> NoStats, flag |-> FALSE, nodes |-> {}]

----------------------------------------------------------------------------
\* The caller builds a graph, then constructs the solver on it.

Init ==
    /\ callerGraph = EmptyGraph
    /\ graph = NoneGraph
    /\ augmented_graph = NoneGraph
    /\ euler_circuit = NoneCircuit
    /\ min_weight_pairs = {}
    /\ branch = NoBranch
    /\ result = NoResult
    /\ calls = <<>>
    /\ planner = NonePlanner
    /\ planned_for = NoneGraph
    /\ routes = {}
    /\ active_planners = {}
    /\ call = NoCalls(MaxCalls)
    /\ pc = "build"

\* The caller's graph.add_node
AddNode ==
    /\ pc = "build"
    /\ Cardinality(callerGraph.nodes) < NumNodes
    /\ callerGraph' = add_node(callerGraph)
    /\ UNCHANGED <<graph, augmented_graph, euler_circuit, min_weight_pairs,
                   branch, result, calls, pc>>
    /\ UNCHANGED <<plannerVars, serviceVars>>

\* The caller's graph.add_edge(u, v, length=len)
AddEdge ==
    /\ pc = "build"
    /\ number_of_edges(callerGraph) < MaxEdges
    /\ \E u \in callerGraph.nodes, v \in callerGraph.nodes, len \in Lengths :
          /\ u # v
          /\ callerGraph' = add_edge(callerGraph, u, v, len)
    /\ UNCHANGED <<graph, augmented_graph, euler_circuit, min_weight_pairs,
                   branch, result, calls, pc>>
    /\ UNCHANGED <<plannerVars, serviceVars>>

\* CPPSolver.__init__
Construct ==
    /\ pc = "build"
    /\ LET c == copy(<<callerGraph>>, 1)
       IN /\ callerGraph' = c.heap[1]
          /\ graph' = c.heap[c.ref]
    /\ augmented_graph' = NoneGraph
    /\ euler_circuit' = NoneCircuit
    /\ pc' = "ready"
    /\ UNCHANGED <<min_weight_pairs, branch, result, calls>>
    /\ UNCHANGED <<plannerVars, serviceVars>>

\* The body of CPPSolver.solve.  Without nodes nx.is_strongly_connected
\* raises NetworkXPointlessConcept out of _is_eulerian, before anything is
\* assigned.  networkx iterates in insertion order, which copy() preserves:
\* on a graph equal to the one an earlier call found, the ties fall the same
\* way and the call computes what the earlier call computed.
DoSolve ==
    /\ pc' = "solved"
    /\ IF graph.nodes = {}
       THEN /\ result' = [NoResult EXCEPT !.op = "solve",
                                           !.exc = "NetworkXPointlessConcept"]
            /\ UNCHANGED <<graph, augmented_graph, euler_circuit,
                           min_weight_pairs, branch, calls>>
       ELSE LET known == {i \in 1..Len(calls) : calls[i].input = graph}
            IN IF known # {}
               THEN LET c == calls[CHOOSE i \in known : TRUE]
                    IN /\ calls' = Append(calls, c)
                       /\ graph' = c.after
                       /\ augmented_graph' = c.aug
                       /\ euler_circuit' = c.circuit
                       /\ min_weight_pairs' = c.pairs
                       /\ branch' = c.branch
                       /\ result' = [NoResult EXCEPT !.op = "solve"]
               ELSE \E o \in solve(graph) :
                    /\ calls' = Append(calls,
                          [input |-> graph, after |-> o.graph, aug |-> o.aug,
                           circuit |-> o.circuit, pairs |-> o.pairs,
                           branch |-> [eulerian |-> o.eulerian,
                                       fallback |-> o.fallback]])
                    /\ graph' = o.graph
                    /\ augmented_graph' = o.aug
                    /\ euler_circuit' = o.circuit
                    /\ min_weight_pairs' = o.pairs
                    /\ branch' = [eulerian |-> o.eulerian, fallback |-> o.fallback]
                    /\ result' = [NoResult EXCEPT !.op = "solve"]
    /\ UNCHANGED callerGraph
    /\ UNCHANGED <<plannerVars, serviceVars>>

\* CPPSolver.solve, the first call on a solver.
Solve ==
    /\ pc = "ready"
    /\ Len(calls) < MaxSolves
    /\ DoSolve

\* CPPSolver.get_total_distance
GetTotalDistance ==
    /\ pc \in {"ready", "solved", "stats"}
    /\ pc' = "stats"
    /\ result' = [NoResult EXCEPT !.op = "get_total_distance",
                    !.distance = get_total_distance(augmented_graph, euler_circuit)]
    /\ UNCHANGED <<callerGraph, graph, augmented_graph, euler_circuit,
                   min_weight_pairs, branch, calls>>
    /\ UNCHANGED <<plannerVars, serviceVars>>

\* CPPSolver.get_route_stats: {} without a circuit; the division raises
\* ZeroDivisionError when the graph has no edge.
GetRouteStats ==
    /\ pc \in {"ready", "solved", "stats"}
    /\ pc' = "stats"
    /\ result' =
          IF euler_circuit = NoneCircuit \/ euler_circuit = <<>>
          THEN [NoResult EXCEPT !.op = "get_route_stats"]
          ELSE IF number_of_edges(graph) = 0
          THEN [NoResult EXCEPT !.op = "get_route_stats", !.exc = "ZeroDivisionError"]
          ELSE [NoResult EXCEPT !.op = "get_route_stats", !.empty = FALSE,
                  !.stats = get_route_stats(graph, augmented_graph, euler_circuit)]
    /\ UNCHANGED <<callerGraph, graph, augmented_graph, euler_circuit,
                   min_weight_pairs, branch, calls>>
    /\ UNCHANGED <<plannerVars, serviceVars>>

Next ==
    \/ AddNode
    \/ AddEdge
    \/ Construct
    \/ Solve
    \/ GetTotalDistance
    \/ GetRouteStats

Spec == Init /\ [][Next]_vars

----------------------------------------------------------------------------
\* Repeated invocations: solve called again on the same solver, and a second
\* solver constructed on the caller's graph.

\* CPPSolver.solve, called again on a solver that has solved.
SolveAgain ==
    /\ pc = "solved"
    /\ Len(calls) < MaxSolves
    /\ DoSolve

\* CPPSolver.__init__ of another solver on the same caller's graph.
ConstructAgain ==
    /\ pc = "solved"
    /\ Len(calls) < MaxSolves
    /\ LET c == copy(<<callerGraph>>, 1)
       IN /\ callerGraph' = c.heap[1]
          /\ graph' = c.heap[c.ref]
    /\ augmented_graph' = NoneGraph
    /\ euler_circuit' = NoneCircuit
    /\ pc' = "ready"
    /\ UNCHANGED <<min_weight_pairs, branch, result, calls>>
    /\ UNCHANGED <<plannerVars, serviceVars>>

RepeatNext ==
    \/ AddNode
    \/ AddEdge
    \/ Construct
    \/ Solve
    \/ SolveAgain
    \/ ConstructAgain

RepeatSpec == Init /\ [][RepeatNext]_vars

----------------------------------------------------------------------------
\* The degree/Eulerian analyzer on its own, over graphs that may also have
\* self-loops (a street that returns to its own junction).

\* The caller's graph.add_edge(u, u, length=len)
AddSelfLoop ==
    /\ pc = "build"
    /\ number_of_edges(callerGraph) < MaxEdges
    /\ \E u \in callerGraph.nodes, len \in Lengths :
          callerGraph' = add_edge(callerGraph, u, u, len)
    /\ UNCHANGED <<graph, augmented_graph, euler_circuit, min_weight_pairs,
                   branch, result, calls, pc>>
    /\ UNCHANGED <<plannerVars, serviceVars>>

\* CPPSolver._is_eulerian.  The loop over no nodes returns nothing, and
\* nx.is_strongly_connected raises NetworkXPointlessConcept on the null graph.
IsEulerian ==
    /\ pc \in {"ready", "analysed"}
    /\ pc' = "analysed"
    /\ result' =
          IF graph.nodes = {}
          THEN [NoResult EXCEPT !.op = "_is_eulerian",
                                !.exc = "NetworkXPointlessConcept"]
          ELSE [NoResult EXCEPT !.op = "_is_eulerian",
                                !.flag = _is_eulerian(graph)]
    /\ UNCHANGED <<callerGraph, graph, augmented_graph, euler_circuit,
                   min_weight_pairs, branch, calls>>
    /\ UNCHANGED <<plannerVars, serviceVars>>

\* CPPSolver._get_odd_degree_nodes
GetOddDegreeNodes ==
    /\ pc \in {"ready", "analysed"}
    /\ pc' = "analysed"
    /\ result' = [NoResult EXCEPT !.op = "_get_odd_degree_nodes",
                                  !.nodes = _get_odd_degree_nodes(graph)]
    /\ UNCHANGED <<callerGraph, graph, augmented_graph, euler_circuit,
                   min_weight_pairs, branch, calls>>
    /\ UNCHANGED <<plannerVars, serviceVars>>

AnalyzerNext ==
    \/ AddNode
    \/ AddEdge
    \/ AddSelfLoop
    \/ Construct
    \/ IsEulerian
    \/ GetOddDegreeNodes

AnalyzerSpec == Init /\ [][AnalyzerNext]_vars

----------------------------------------------------------------------------
\* RoutePlanner (src/planning/route_planner.py): load an area, plan, export.

solverVars == <<callerGraph, graph, augmented_graph, euler_circuit,
                min_weight_pairs, branch, calls, pc>>

\* The street networks MapLoader returns for the areas the caller asks for.
\* OSM node ids are global: areas that overlap share nodes.
AreaStreet == add_edge([nodes |-> {1, 2}, e |-> EmptyEdges], 1, 2, 1)
AreaBlock ==
    add_edge(add_edge(add_edge([nodes |-> {1, 2, 3}, e |-> EmptyEdges],
                               1, 2, 1), 2, 3, 2), 3, 1, 1)
AreaAvenue ==
    add_edge(add_edge(add_edge([nodes |-> {2, 3, 4}, e |-> EmptyEdges],
                               2, 3, 1), 3, 2, 1), 3, 4, 2)
AreaLane == add_edge([nodes |-> {3, 4}, e |-> EmptyEdges], 4, 3, 1)
Areas == {AreaStreet, AreaBlock, AreaAvenue, AreaLane}

\* A guard that lets every call through.
NeverMissing(pl) == FALSE

\* `not self.graph`: None, or a graph without nodes (len(graph) == 0).
no_area(pl) == pl.graph = NoneGraph \/ pl.graph.nodes = {}

\* `not self.route`: None, or the empty list.
no_route(pl) == pl.route = NoneCircuit \/ pl.route = <<>>

\* RoutePlanner._setup_solver_and_exporter
_setup_solver_and_exporter(pl) ==
    IF no_area(pl) THEN pl
    ELSE LET c == copy(<<pl.graph>>, 1)
         IN [pl EXCEPT !.solver = [graph |-> c.heap[c.ref],
                                   augmented_graph |-> NoneGraph,
                                   euler_circuit |-> NoneCircuit],
                       !.exporter = c.heap[1]]

\* RoutePlanner.load_area_by_place / _by_bbox / _by_point, the loader
\* returning the network of area a.
LoadArea ==
    /\ \E a \in Areas :
          planner' = _setup_solver_and_exporter([planner EXCEPT !.graph = a])
    /\ result' = [NoResult EXCEPT !.op = "load_area"]
    /\ UNCHANGED <<planned_for, solverVars>>
    /\ UNCHANGED serviceVars

\* RoutePlanner.load_area_*, OSMnx raising (no network, nothing found):
\* self.graph is not assigned.
LoadAreaFails ==
    /\ result' = [NoResult EXCEPT !.op = "load_area", !.exc = "LoadError"]
    /\ UNCHANGED <<planner, planned_for, solverVars>>
    /\ UNCHANGED serviceVars

\* RoutePlanner.plan_route
PlanRoute ==
    /\ IF no_area(planner)
       THEN /\ result' = [NoResult EXCEPT !.op = "plan_route", !.exc = "ValueError"]
            /\ UNCHANGED <<planner, planned_for>>
       ELSE \E o \in solve(planner.solver.graph) :
            /\ planner' = [planner EXCEPT
                              !.solver = [graph |-> o.graph,
                                          augmented_graph |-> o.aug,
                                          euler_circuit |-> o.circuit],
                              !.route = o.circuit]
            /\ planned_for' = planner.graph
            /\ result' = [NoResult EXCEPT !.op = "plan_route"]
    /\ UNCHANGED solverVars
    /\ UNCHANGED serviceVars

\* RoutePlanner.export_route: the exporter looks every node of the route up
\* in its own graph (KeyError for a node it does not have).
ExportRoute ==
    /\ result' =
          IF no_route(planner)
          THEN [NoResult EXCEPT !.op = "export_route", !.exc = "ValueError"]
          ELSE IF \A i \in 1..Len(planner.route) :
                     /\ planner.route[i][1] \in planner.exporter.nodes
                     /\ planner.route[i][2] \in planner.exporter.nodes
          THEN [NoResult EXCEPT !.op = "export_route"]
          ELSE [NoResult EXCEPT !.op = "export_route", !.exc = "KeyError"]
    /\ UNCHANGED <<planner, planned_for, solverVars>>
    /\ UNCHANGED serviceVars

\* RoutePlanner.get_area_stats: MapLoader.get_graph_stats of self.graph.
GetAreaStats ==
    /\ result' =
          IF no_area(planner)
          THEN [NoResult EXCEPT !.op = "get_area_stats", !.exc = "ValueError"]
          ELSE [NoResult EXCEPT !.op = "get_area_stats",
                  !.nodes = _get_odd_degree_nodes(planner.graph)]
    /\ UNCHANGED <<planner, planned_for, solverVars>>
    /\ UNCHANGED serviceVars

\* RoutePlanner.get_route_stats
PlannerGetRouteStats ==
    /\ result' =
          IF planner.solver = NoneSolver \/ no_route(planner)
          THEN [NoResult EXCEPT !.op = "planner.get_route_stats",
                                !.exc = "ValueError"]
          ELSE IF \/ planner.solver.euler_circuit = NoneCircuit
                  \/ planner.solver.euler_circuit = <<>>
          THEN [NoResult EXCEPT !.op = "planner.get_route_stats"]
          ELSE [NoResult EXCEPT !.op = "planner.get_route_stats",
                  !.empty = FALSE,
                  !.stats = get_route_stats(planner.solver.graph,
                                            planner.solver.augmented_graph,
                                            planner.solver.euler_circuit)]
    /\ UNCHANGED <<planner, planned_for, solverVars>>
    /\ UNCHANGED serviceVars

PlannerNext ==
    \/ LoadArea
    \/ LoadAreaFails
    \/ PlanRoute
    \/ ExportRoute
    \/ GetAreaStats
    \/ PlannerGetRouteStats

PlannerSpec == Init /\ [][PlannerNext]_vars

----------------------------------------------------------------------------
\* RouteService (src/web_app/backend/route_service.py).  plan_route_bbox,
\* plan_route_point and plan_route_place run the same steps; the calls are
\* coroutines of one event loop and interleave at their awaits (the progress
\* callback, and the planner's load, plan and export run in a thread).  Any
\* of these may raise.

nonServiceVars == <<solverVars, result, plannerVars>>

\* A cleanup that leaves the entry in place.
KeepPlanner(active, route_id) == active

\* finally: if route_id in self.active_planners: del ...
finally_cleanup(active, route_id) == active \ {route_id}

\* await progress_callback({'status': status, ...}), if there is a callback.
emit(c, status) == IF call[c].cb THEN Append(call[c].events, status)
                   ELSE call[c].events

\* The call creates its planner, registers it and reports 'loading'.
PlanRouteBegin ==
    \E c \in Calls, cb \in BOOLEAN, raises \in BOOLEAN :
       /\ call[c].at = "new"
       /\ raises => cb
       /\ active_planners' = active_planners \cup {c}
       /\ call' = [call EXCEPT ![c] =
                     [at |-> IF raises THEN "except" ELSE "load",
                      cb |-> cb,
                      events |-> IF cb THEN <<"loading">> ELSE <<>>]]
       /\ UNCHANGED <<routes, nonServiceVars>>

\* planner.load_area_*, get_area_stats, then 'planning'.
PlanRouteLoad ==
    \E c \in Calls, loaded \in BOOLEAN, raises \in BOOLEAN :
       /\ call[c].at = "load"
       /\ raises => (loaded /\ call[c].cb)
       /\ call' = [call EXCEPT
                     ![c].at = IF loaded /\ ~ raises THEN "plan" ELSE "except",
                     ![c].events = IF loaded THEN emit(c, "planning") ELSE @]
       /\ UNCHANGED <<routes, active_planners, nonServiceVars>>

\* planner.plan_route, get_route_stats, then 'exporting'.
PlanRoutePlan ==
    \E c \in Calls, planned \in BOOLEAN, raises \in BOOLEAN :
       /\ call[c].at = "plan"
       /\ raises => (planned /\ call[c].cb)
       /\ call' = [call EXCEPT
                     ![c].at = IF planned /\ ~ raises THEN "export" ELSE "except",
                     ![c].events = IF planned THEN emit(c, "exporting") ELSE @]
       /\ UNCHANGED <<routes, active_planners, nonServiceVars>>

\* planner.export_route, the entry in self.routes, then 'completed'.
PlanRouteExport ==
    \E c \in Calls, exported \in BOOLEAN, raises \in BOOLEAN :
       /\ call[c].at = "export"
       /\ raises => (exported /\ call[c].cb)
       /\ routes' = IF exported THEN routes \cup {c} ELSE routes
       /\ call' = [call EXCEPT
                     ![c].at = IF exported /\ ~ raises THEN "return" ELSE "except",
                     ![c].events = IF exported THEN emit(c, "completed") ELSE @]
       /\ UNCHANGED <<active_planners, nonServiceVars>>

\* return route_id, through the finally clause.
PlanRouteReturn ==
    \E c \in Calls :
       /\ call[c].at = "return"
       /\ active_planners' = finally_cleanup(active_planners, c)
       /\ call' = [call EXCEPT ![c].at = "returned"]
       /\ UNCHANGED <<routes, nonServiceVars>>

\* except Exception: report 'error' (the callback may raise again).
PlanRouteExcept ==
    \E c \in Calls :
       /\ call[c].at = "except"
       /\ call' = [call EXCEPT ![c].at = "raise", ![c].events = emit(c, "error")]
       /\ UNCHANGED <<routes, active_planners, nonServiceVars>>

\* raise, through the finally clause.
PlanRouteRaise ==
    \E c \in Calls :
       /\ call[c].at = "raise"
       /\ active_planners' = finally_cleanup(active_planners, c)
       /\ call' = [call EXCEPT ![c].at = "raised"]
       /\ UNCHANGED <<routes, nonServiceVars>>

ServiceNext ==
    \/ PlanRouteBegin
    \/ PlanRouteLoad
    \/ PlanRoutePlan
    \/ PlanRouteExport
    \/ PlanRouteReturn
    \/ PlanRouteExcept
    \/ PlanRouteRaise

ServiceSpec == Init /\ [][ServiceNext]_vars

----------------------------------------------------------------------------
\* Vocabulary of the properties, stated without the solver's operators.

\* solve has just returned a circuit.
Solved == pc = "solved" /\ euler_circuit # NoneCircuit

EdgeCount(g) == number_of_edges(g)
TotalDeg(g, v) == in_degree(g, v) + out_degree(g, v)

\* The directed edges between u and v, in either direction.
Between(g, u, v) ==
    IF u = v THEN Len(g.e[<<u, u>>]) ELSE Len(g.e[<<u, v>>]) + Len(g.e[<<v, u>>])

RECURSIVE Reach(_, _, _)
\* The nodes reached from S along the arcs (two_way: along the streets).
Reach(g, S, two_way) ==
    LET T == S \cup {w \in g.nodes : \E v \in S :
                        \/ Len(g.e[<<v, w>>]) > 0
                        \/ two_way /\ Len(g.e[<<w, v>>]) > 0}
    IN IF T = S THEN S ELSE Reach(g, T, two_way)

StronglyConnected(g) == \A u \in g.nodes : Reach(g, {u}, FALSE) = g.nodes
WeaklyConnected(g) == \A u \in g.nodes : Reach(g, {u}, TRUE) = g.nodes
Balanced(g) == \A v \in g.nodes : in_degree(g, v) = out_degree(g, v)

\* The entries (u, v) or (v, u) of a circuit.
Traversals(c, u, v) ==
    Cardinality({i \in 1..Len(c) : c[i] = <<u, v>> \/ c[i] = <<v, u>>})
Contiguous(c) == \A i \in 1..(Len(c) - 1) : c[i][2] = c[i + 1][1]
Closed(c) == c = <<>> \/ c[Len(c)][2] = c[1][1]

----------------------------------------------------------------------------
\* C1: for a graph with an edge whose undirected projection is connected,
\* solve returns a closed tour in which every pair of nodes u, v is
\* traversed (as (u,v) or (v,u)) at least as often as there are original
\* edges between u and v.
C1_TourCoversEveryStreet ==
    (Solved /\ EdgeCount(graph) > 0 /\ WeaklyConnected(graph))
    => /\ Closed(euler_circuit)
       /\ \A u \in graph.nodes, v \in graph.nodes :
             Traversals(euler_circuit, u, v) >= Between(graph, u, v)

\* C2: on a graph that satisfies the Eulerian condition, solve returns a
\* closed sequence with exactly one entry per edge of the graph.
C2_EulerianGraphEveryEdgeOnce ==
    (Solved /\ Balanced(graph) /\ StronglyConnected(graph))
    => /\ Len(euler_circuit) = EdgeCount(graph)
       /\ Closed(euler_circuit)

\* C3: after _augment_graph every node of the largest connected component
\* has an even in-degree + out-degree in the augmented graph.
C3_AugmentedDegreesEven ==
    (Solved /\ ~ branch.eulerian)
    => \A v \in largest_cc(to_undirected(augmented_graph)) :
          TotalDeg(augmented_graph, v) % 2 = 0

\* C4: in every sequence solve returns, each entry starts where the entry
\* before it ends, on the primary and on the fallback path; on the primary
\* path the sequence is also closed.
C4_EntriesChain ==
    Solved => /\ Contiguous(euler_circuit)
              /\ ~ branch.fallback => Closed(euler_circuit)

\* C5: the undirected projection the circuit is built on has one edge per
\* directed edge of the augmented graph, so a primary circuit over a
\* connected projection has as many entries as the augmented graph has edges.
C5_ProjectionKeepsMultiplicity ==
    Solved
    => /\ MultiGraph_number_of_edges(to_undirected(augmented_graph))
             = EdgeCount(augmented_graph)
       /\ (~ branch.fallback /\ WeaklyConnected(augmented_graph))
             => Len(euler_circuit) = EdgeCount(augmented_graph)

Infinity == 1 + MaxLen * NumNodes

\* Shortest-path lengths over ug by Floyd-Warshall, through the nodes 1..k.
RECURSIVE Distances(_, _)
Distances(ug, k) ==
    IF k = 0
    THEN Materialize([p \in Pairs |->
            IF p[1] = p[2] THEN 0
            ELSE IF Len(UE(ug, p[1], p[2])) > 0 THEN hop_weight(ug, p[1], p[2])
            ELSE Infinity])
    ELSE LET D == Distances(ug, k - 1)
         IN Materialize([p \in Pairs |->
               IF D[<<p[1], k>>] + D[<<k, p[2]>>] < D[p]
               THEN D[<<p[1], k>>] + D[<<k, p[2]>>]
               ELSE D[p]])

\* The nodes of odd degree in the undirected projection ug.
OddNodes(ug) ==
    {v \in ug.nodes :
        Cardinality({x \in AllNodes \X (1..(2 * MaxEdges)) :
                        x[1] # v /\ x[2] <= Len(UE(ug, v, x[1]))}) % 2 = 1}

\* The perfect matchings of the node set O whose pairs are joined by a path.
PerfectMatchings(O, D) ==
    {M \in SUBSET {pr \in O \X O : pr[1] < pr[2] /\ D[pr] < Infinity} :
        \A v \in O : Cardinality({pr \in M : pr[1] = v \/ pr[2] = v}) = 1}

MatchingWeight(M, D) == SumOver([pr \in M |-> D[pr]], M)

ReturnedPairs == {<<t[1], t[2]>> : t \in min_weight_pairs}

C7_MatchingIsMinimumWeight ==
    (Solved /\ ~ branch.eulerian)
    => LET ug == to_undirected(graph)
           D == Distances(ug, NumNodes)
           O == OddNodes(ug)
       IN Cardinality(O) <= 8
          => \A M \in PerfectMatchings(O, D) :
                MatchingWeight(ReturnedPairs, D) <= MatchingWeight(M, D)

\* Four odd nodes were matched, and another perfect matching is heavier.
C7_Witness ==
    /\ Solved
    /\ ~ branch.eulerian
    /\ Cardinality(min_weight_pairs) = 2
    /\ LET ug == to_undirected(graph)
           D == Distances(ug, NumNodes)
       IN \E M \in PerfectMatchings(OddNodes(ug), D) :
             MatchingWeight(M, D) > MatchingWeight(ReturnedPairs, D)

\* C8: for every hop (u, v) of every matched path _augment_graph appends
\* exactly one edge, u->v with the length of the first original u->v if
\* there is one and otherwise v->u with the length of the first original
\* v->u; no hop is skipped, so the augmented graph has the original edges
\* plus one edge per hop.
Hops(u, v) ==
    Cardinality({x \in min_weight_pairs \X (1..NumNodes) :
                    /\ x[2] < Len(x[1][3])
                    /\ x[1][3][x[2]] = u
                    /\ x[1][3][x[2] + 1] = v})

TotalHops == SumOver([t \in min_weight_pairs |-> Len(t[3]) - 1], min_weight_pairs)

C8_OneDuplicatePerHop ==
    (Solved /\ ~ branch.eulerian)
    => /\ \A p \in Pairs :
             LET old == graph.e[p]
                 new == augmented_graph.e[p]
                 forward == IF Len(old) > 0 THEN Hops(p[1], p[2]) ELSE 0
                 reverse == IF Len(graph.e[<<p[2], p[1]>>]) = 0
                            THEN Hops(p[2], p[1]) ELSE 0
             IN /\ Len(new) = Len(old) + forward + reverse
                /\ \A k \in 1..Len(new) :
                      new[k] = IF k <= Len(old) THEN old[k] ELSE old[1]
       /\ EdgeCount(augmented_graph) = EdgeCount(graph) + TotalHops

\* A matched path of two hops or more, one of them against the direction of
\* the only original edge.
C8_Witness ==
    /\ Solved
    /\ ~ branch.eulerian
    /\ \E t \in min_weight_pairs :
          /\ Len(t[3]) >= 3
          /\ \E i \in 1..(Len(t[3]) - 1) :
                /\ ~ has_edge(graph, t[3][i], t[3][i + 1])
                /\ has_edge(augmented_graph, t[3][i + 1], t[3][i])

\* C9: when the graph satisfies the Eulerian condition, or has no node of
\* odd degree, the augmented graph is the original graph.
C9_AugmentationIsNoOp ==
    (Solved /\ (\/ Balanced(graph) /\ StronglyConnected(graph)
                \/ \A v \in graph.nodes : TotalDeg(graph, v) % 2 = 0))
    => augmented_graph = graph

\* C10: the edge_coverage get_route_stats returns lies in [0, 100].
C10_CoverageWithinRange ==
    (result.op = "get_route_stats" /\ ~ result.empty)
    => /\ 0 <= result.stats.coverage_num
       /\ result.stats.coverage_num <= 100 * result.stats.coverage_den

\* C11: once the solver is constructed, no call changes the caller's graph
\* or self.graph, and self.graph has the nodes and edges of the caller's
\* graph; the edges of the augmentation go to augmented_graph only.
C11_GraphsUntouched ==
    /\ [](pc # "build" => graph = callerGraph)
    /\ [][pc # "build" => (callerGraph' = callerGraph /\ graph' = graph)]_vars

\* The statistics were read after a solve that added edges.
C11_Witness ==
    /\ pc = "stats"
    /\ augmented_graph # NoneGraph
    /\ EdgeCount(augmented_graph) > EdgeCount(graph)
    /\ graph = callerGraph

\* The connected components of g, streets taken two-way.
Components(g) == {Reach(g, {u}, TRUE) : u \in g.nodes}
\* The nodes the circuit passes.
Visited(c) == {c[i][1] : i \in 1..Len(c)} \cup {c[i][2] : i \in 1..Len(c)}

\* C12: when the undirected projection of the augmented graph is not
\* connected, solve raises nothing and tours one connected component with the
\* largest number of nodes: every entry of the circuit has both endpoints in
\* that component (so no edge of another component appears), and the circuit
\* passes every node of it when it has more than one.
C12_TourOfLargestComponent ==
    (pc = "solved" /\ graph.nodes # {} /\ ~ WeaklyConnected(graph))
    => /\ result.exc = "none"
       /\ euler_circuit # NoneCircuit
       /\ ~ WeaklyConnected(augmented_graph)
       /\ \E C \in Components(augmented_graph) :
             /\ \A D \in Components(augmented_graph) :
                   Cardinality(D) <= Cardinality(C)
             /\ Visited(euler_circuit) \subseteq C
             /\ Cardinality(C) > 1 => C \subseteq Visited(euler_circuit)

\* The tour stays in one component while another component has a street.
C12_Witness ==
    /\ Solved
    /\ ~ WeaklyConnected(augmented_graph)
    /\ Len(euler_circuit) > 0
    /\ \E u \in graph.nodes, v \in graph.nodes :
          /\ has_edge(augmented_graph, u, v)
          /\ u \notin Visited(euler_circuit)

\* C13: when the primary construction cannot complete, solve raises nothing
\* and returns a depth-first traversal in which every edge of the connected
\* undirected multigraph the circuit is built on is visited exactly once.
C13_FallbackVisitsEveryEdgeOnce ==
    (Solved /\ branch.fallback)
    => /\ result.exc = "none"
       /\ LET ug == circuit_graph(augmented_graph)
          IN \A u \in ug.nodes, v \in ug.nodes :
                u <= v => Traversals(euler_circuit, u, v) = Len(UE(ug, u, v))

\* C14: for a non-empty circuit get_route_stats returns total_edges = the
\* length of the circuit and repeated_edges = total_edges - unique_edges,
\* with unique_edges <= total_edges and repeated_edges >= 0.
C14_StatsRoundTrip ==
    (/\ result.op = "get_route_stats"
     /\ euler_circuit # NoneCircuit
     /\ euler_circuit # <<>>)
    => /\ result.exc = "none"
       /\ ~ result.empty
       /\ result.stats.total_edges = Len(euler_circuit)
       /\ result.stats.repeated_edges
             = result.stats.total_edges - result.stats.unique_edges
       /\ result.stats.unique_edges <= result.stats.total_edges
       /\ result.stats.repeated_edges >= 0

\* Statistics of a circuit that repeats an entry.
C14_Witness ==
    /\ result.op = "get_route_stats"
    /\ ~ result.empty
    /\ result.stats.total_edges >= 4
    /\ result.stats.repeated_edges >= 1

\* The sum of the lengths of all edges of a MultiGraph.
TotalLength(ug) ==
    SumOver([p \in Pairs |-> SumTo(LAMBDA k : ug.e[p][k], Len(ug.e[p]))], Pairs)

\* C15: for a complete Eulerian circuit (primary path, connected
\* projection) get_total_distance equals the sum of the lengths of all edges
\* of the undirected projection of the augmented graph, each parallel edge
\* counted with its own length.
C15_DistanceIsProjectionLength ==
    (/\ result.op = "get_total_distance"
     /\ euler_circuit # NoneCircuit
     /\ ~ branch.fallback
     /\ WeaklyConnected(augmented_graph))
    => result.distance = TotalLength(to_undirected(augmented_graph))

\* C16: the lengths of the edges _augment_graph adds sum to the sum of the
\* shortest-path distances of the matched pairs, also when a hop has
\* parallel edges of different lengths.
C16_AddedLengthIsMatchedDistance ==
    (Solved /\ ~ branch.eulerian)
    => TotalLength(augmented_graph) - TotalLength(graph)
          = MatchingWeight(ReturnedPairs,
                           Distances(to_undirected(graph), NumNodes))

\* C17: _get_odd_degree_nodes returns a set with an even number of nodes,
\* on every graph, with self-loops and parallel edges too.
C17_OddNodesEvenCardinality ==
    result.op = "_get_odd_degree_nodes" => Cardinality(result.nodes) % 2 = 0

\* Two odd nodes on a graph with a self-loop and a parallel edge.
C17_Witness ==
    /\ result.op = "_get_odd_degree_nodes"
    /\ Cardinality(result.nodes) = 2
    /\ \E u \in graph.nodes : Len(graph.e[<<u, u>>]) > 0
    /\ \E p \in Pairs : Len(graph.e[p]) > 1

\* Two odd nodes of the projection of the graph have no connecting path.
OddNodesApart ==
    \E u \in OddNodes(to_undirected(graph)), v \in OddNodes(to_undirected(graph)) :
       v \notin Reach(graph, {u}, TRUE)

\* C18: when two odd-degree nodes have no connecting path, the matching
\* raises nothing, every odd node is still matched, and no returned pair
\* joins nodes of different connected components.
C18_MatchingWithinComponents ==
    (pc = "solved" /\ graph.nodes # {} /\ ~ branch.eulerian /\ OddNodesApart)
    => /\ result.exc = "none"
       /\ \A pr \in ReturnedPairs : pr[2] \in Reach(graph, {pr[1]}, TRUE)
       /\ \A v \in OddNodes(to_undirected(graph)) :
             Cardinality({pr \in ReturnedPairs : pr[1] = v \/ pr[2] = v}) = 1

\* Four odd nodes in two components, matched in two pairs.
C18_Witness ==
    /\ Solved
    /\ ~ branch.eulerian
    /\ OddNodesApart
    /\ Cardinality(ReturnedPairs) = 2

\* C19: on a graph with no nodes neither analyzer call raises;
\* _is_eulerian returns true and _get_odd_degree_nodes the empty set.
C19_AnalyzerOnEmptyGraph ==
    (pc = "analysed" /\ graph.nodes = {})
    => /\ result.exc = "none"
       /\ result.op = "_is_eulerian" => result.flag
       /\ result.op = "_get_odd_degree_nodes" => result.nodes = {}

\* C20: solve on a graph with no nodes fails with EmptyGraphError and with
\* no other exception.
C20_SolveEmptyGraphError ==
    (result.op = "solve" /\ graph.nodes = {}) => result.exc = "EmptyGraphError"

\* C21: when the circuit is empty or solve has not been called,
\* get_route_stats returns an empty record and get_total_distance returns 0,
\* and neither raises.
C21_NoCircuitNoStats ==
    (euler_circuit = NoneCircuit \/ euler_circuit = <<>>)
    => /\ result.op = "get_route_stats" => (result.exc = "none" /\ result.empty)
       /\ result.op = "get_total_distance"
             => (result.exc = "none" /\ result.distance = 0)

\* The statistics of a solved graph that has nodes and no edge.
C21_Witness ==
    /\ result.op = "get_route_stats"
    /\ euler_circuit = <<>>
    /\ Cardinality(graph.nodes) >= 2
    /\ EdgeCount(graph) = 0

\* C22: the solve calls on one graph, on the same solver or on two solvers
\* built from it, leave augmented graphs with the same edges and circuits of
\* the same length; no edge of one call is carried into the next.
C22_SolvesAgree ==
    \A i \in 1..Len(calls), j \in 1..Len(calls) :
       /\ calls[i].aug = calls[j].aug
       /\ Len(calls[i].circuit) = Len(calls[j].circuit)

\* Two solves that each added edges.
C22_Witness ==
    /\ Len(calls) = 2
    /\ EdgeCount(calls[2].aug) > EdgeCount(callerGraph)
    /\ Len(calls[2].circuit) >= 4

\* C26: every node of odd degree in the undirected projection of the graph
\* is in exactly one returned pair, connected graph or not, and every
\* connected component holds an even number of them.
C26_EveryOddNodeMatchedOnce ==
    (Solved /\ ~ branch.eulerian)
    => LET O == OddNodes(to_undirected(graph))
       IN /\ \A v \in O :
                Cardinality({pr \in ReturnedPairs : pr[1] = v \/ pr[2] = v}) = 1
          /\ \A pr \in ReturnedPairs : pr[1] \in O /\ pr[2] \in O
          /\ \A C \in Components(graph) : Cardinality(C \cap O) % 2 = 0

\* Four odd nodes in one connected graph.
C26_Witness ==
    /\ Solved
    /\ ~ branch.eulerian
    /\ WeaklyConnected(graph)
    /\ Cardinality(OddNodes(to_undirected(graph))) = 4
    /\ Cardinality(ReturnedPairs) = 2

\* C27: the odd nodes _augment_graph computes on graph.to_undirected() are
\* the nodes _get_odd_degree_nodes returns (odd in-degree + out-degree), on
\* every directed multigraph.
C27_OddNodeSetsAgree ==
    result.op = "_get_odd_degree_nodes" => result.nodes = augment_odd_nodes(graph)

\* C30: in every state reached through solve a non-empty circuit comes with
\* an original graph of at least one edge, so get_route_stats never divides
\* by zero.
C30_NoDivisionByZero ==
    /\ (euler_circuit # NoneCircuit /\ euler_circuit # <<>>) => EdgeCount(graph) > 0
    /\ result.exc # "ZeroDivisionError"

\* get_route_stats divided, after a solve that added nothing.
C30_Witness ==
    /\ result.op = "get_route_stats"
    /\ ~ result.empty
    /\ result.stats.coverage_den >= 3
    /\ augmented_graph = graph

\* C25: plan_route and get_area_stats raise ValueError when no area is
\* loaded, export_route and get_route_stats raise ValueError when no route
\* has been planned, and the rejected call leaves graph, solver, route and
\* exporter as they were.
C25_PlannerOrderEnforced ==
    [][/\ (/\ result'.op \in {"plan_route", "get_area_stats"}
           /\ planner.graph = NoneGraph)
          => (result'.exc = "ValueError" /\ planner' = planner)
       /\ (/\ result'.op \in {"export_route", "planner.get_route_stats"}
           /\ planner.route = NoneCircuit)
          => (result'.exc = "ValueError" /\ planner' = planner)]_vars

\* export_route was rejected on a planner that has an area and no route.
C25_Witness ==
    /\ result.op = "export_route"
    /\ result.exc = "ValueError"
    /\ planner.graph # NoneGraph
    /\ planner.route = NoneCircuit

\* C29: whenever route is not None it was planned for the graph that is
\* loaded now: export_route and get_route_stats never succeed on the route
\* of an area loaded before.
C29_RouteBelongsToLoadedGraph ==
    /\ planner.route # NoneCircuit => planned_for = planner.graph
    /\ (/\ result.op \in {"export_route", "planner.get_route_stats"}
        /\ result.exc = "none")
       => planned_for = planner.graph

\* The call is between its first statement and the end of its finally.
InFlight(c) == call[c].at \notin {"new", "returned", "raised"}
Milestones == <<"loading", "planning", "exporting", "completed">>
Emitted(c, status) == \E i \in 1..Len(call[c].events) : call[c].events[i] = status

\* The events of the call without its 'error' events.
RECURSIVE WithoutError(_)
WithoutError(es) ==
    IF es = <<>> THEN <<>>
    ELSE IF es[1] = "error" THEN WithoutError(Tail(es))
    ELSE <<es[1]>> \o WithoutError(Tail(es))
ErrorEvents(c) == {i \in 1..Len(call[c].events) : call[c].events[i] = "error"}

\* C23: a call with a progress callback emits loading, planning, exporting,
\* completed in this order; 'error' is emitted at most once, only by a call
\* that raises, as the last event; completed and error are never both
\* emitted by one call.
C23_ProgressEventsOrdered ==
    \A c \in Calls :
       LET es == call[c].events
           ms == WithoutError(es)
       IN  /\ Len(ms) <= Len(Milestones)
           /\ ms = SubSeq(Milestones, 1, Len(ms))
           /\ Cardinality(ErrorEvents(c)) <= 1
           /\ ErrorEvents(c) \subseteq {Len(es)}
           /\ Emitted(c, "error") => call[c].at \in {"raise", "raised"}
           /\ ~ (Emitted(c, "completed") /\ Emitted(c, "error"))

\* C28: routes has an entry for a route id exactly when its call returned
\* normally; a call that raised (a raising progress callback included)
\* leaves no entry.
C28_RoutesIffReturned ==
    \A c \in Calls :
       /\ call[c].at = "returned" => c \in routes
       /\ call[c].at \in {"raise", "raised"} => c \notin routes

\* C24: active_planners holds a route id only while its call is in flight;
\* the entry is gone when the call has returned and when it has raised, and
\* with every call finished active_planners is empty.
C24_ActiveOnlyInFlight ==
    /\ \A c \in active_planners : InFlight(c)
    /\ (\A c \in Calls : ~ InFlight(c)) => active_planners = {}

\* One call has raised and is gone while the other is still registered.
C24_Witness ==
    \E c \in Calls, d \in Calls :
       /\ call[c].at = "raised"
       /\ c \notin active_planners
       /\ call[d].at = "export"
       /\ d \in active_planners

====
